---- MODULE Spec2Model ----
(***************************************************************************)
(* Model of the sewer-inspection import pipeline:                          *)
(*   lib/s3-stream.ts        streamFromS3 (line-delimited JSON decoder)     *)
(*   lib/database/importer.ts DataImporter and the import_log helpers       *)
(*   lib/database/sqlite.ts   inspections table, insertInspectionsBatch     *)
(*   app/api/import/route.ts  start / stop handlers of the import API       *)
(*                                                                         *)
(* JavaScript runs one task at a time: a handler runs uninterrupted from   *)
(* one await to the next.  An importer's position (pc) is therefore either *)
(* a suspension point ("fetch", "dedup"), where other handlers may run, or *)
(* a synchronous position ("batch", "insert", "persist", "finalize"),      *)
(* where only that importer continues.  A process crash may strike at any  *)
(* position; the SQLite tables survive it, the JavaScript objects do not.  *)
(***************************************************************************)
EXTENDS Integers, Sequences, FiniteSets, TLC

VARIABLES
    files,            \* remote objects: file name -> sequence of lines
    store,            \* table inspections, rows in storage order
    import_log,       \* table import_log, row id = position, started_at ascending
    importers,        \* DataImporter instances of the running process
    currentImporter,  \* route.ts: let currentImporter (0 = null)
    pendingStarts,    \* startImport handlers suspended at `await request.json()`
    allTasks,         \* importAllFiles invocations, by parent importer
    lastResponse,     \* HTTP status of the last answered import API request
    nImporters,       \* number of DataImporter objects constructed so far
    nRuns,            \* number of importFromS3 calls so far
    crashed,          \* history: the run a process crash interrupted last
    options,          \* the ImportOptions the importers of this process are built with
    stream,           \* body of one S3 response: the network chunks, each a sequence of characters
    dec,              \* the streamFromS3 call reading `stream`, between two reads
    search            \* the last search request answered, with its answer

vars == <<files, store, import_log, importers, currentImporter, pendingStarts,
          allTasks, lastResponse, nImporters, nRuns, crashed, options,
                   stream, dec, search>>

----------------------------------------------------------------------------
(* Bounds of the model *)

MaxLines == 2
MaxRuns == 3
MaxImporters == 3
MaxBatch == 2
\* importer.ts:79 `const chunkSize = 200`, scaled down
chunkSize == 2
\* lines of a response body, and the network chunks it arrives in
MaxDecLines == 3
MaxReads == 3
\* search: rows of the Store, distinct timestamps and scores, pages and page sizes asked for
MaxRows == 3
MaxTime == 2
MaxScore == 2
MaxPage == 3
MaxPageSize == 2
\* streaming search: lines of the first source (the second has one fewer)
MaxSearchLines == 3

ImporterIds == 1..MaxImporters

----------------------------------------------------------------------------
(* Remote sources *)

FileNames == <<"part1", "part2">>
FileSet == {FileNames[k] : k \in 1..Len(FileNames)}

Rec(i, m) == [t |-> "rec", id |-> i, missing |-> m]
\* a line that JSON.parse rejects
BadLine == [t |-> "bad", id |-> "", missing |-> "none"]

LineAlphabet == {Rec("a", "none"), Rec("b", "none"), Rec("c", "city"), BadLine}
SourceSet == UNION {[1..n -> LineAlphabet] : n \in 0..MaxLines}
Part2Lines == <<Rec("x", "none")>>

----------------------------------------------------------------------------
(* Helpers *)

Max(S) == CHOOSE x \in S : \A y \in S : y <= x
Min2(a, b) == IF a < b THEN a ELSE b
SeqIds(s) == {s[k].id : k \in 1..Len(s)}

----------------------------------------------------------------------------
(* lib/s3-stream.ts *)

RECURSIVE scanLines(_, _, _, _, _, _)
scanLines(lines, k, limit, offset, recordsSkipped, results) ==
    IF k > Len(lines) THEN results
    ELSE IF lines[k].t = "blank"
         THEN scanLines(lines, k + 1, limit, offset, recordsSkipped, results)
    ELSE IF recordsSkipped < offset
         THEN scanLines(lines, k + 1, limit, offset, recordsSkipped + 1, results)
    ELSE IF Len(results) < limit
         THEN IF lines[k].t = "rec"
              THEN scanLines(lines, k + 1, limit, offset, recordsSkipped,
                             Append(results, lines[k]))
              ELSE scanLines(lines, k + 1, limit, offset, recordsSkipped, results)
    ELSE results

streamFromS3(lines, limit, offset) == scanLines(lines, 1, limit, offset, 0, <<>>)

\* The same function, read by read (lines 668-735).  A character is "{", "}"
\* or "\n"; the text "{}" parses as a record, "{" does not parse.
NL == "\n"
RecordText == <<"{", "}">>
MalformedText == <<"{">>
BlankText == <<>>
DecLineSet == {RecordText, MalformedText, BlankText}

\* the lines joined by "\n", with or without a newline after the last one
RECURSIVE Serialize(_, _)
Serialize(lines, trailing) ==
    IF lines = <<>> THEN <<>>
    ELSE IF Len(lines) = 1
         THEN Head(lines) \o (IF trailing THEN <<NL>> ELSE <<>>)
    ELSE Head(lines) \o <<NL>> \o Serialize(Tail(lines), trailing)

\* the characters from position `from` on, cut after each position in `cuts`
RECURSIVE SplitAt(_, _, _)
SplitAt(bytes, cuts, from) ==
    LET later == {c \in cuts : c >= from /\ c < Len(bytes)}
    IN IF from > Len(bytes) THEN <<>>
       ELSE IF later = {} THEN <<SubSeq(bytes, from, Len(bytes))>>
       ELSE LET c == CHOOSE x \in later : \A y \in later : x <= y
            IN <<SubSeq(bytes, from, c)>> \o SplitAt(bytes, cuts, c + 1)

BodySet ==
    {Serialize(lines, trailing) :
        lines \in UNION {[1..n -> DecLineSet] : n \in 0..MaxDecLines},
        trailing \in BOOLEAN}

StreamSet ==
    UNION {{SplitAt(bytes, cuts, 1) :
               cuts \in {c \in SUBSET (1..(Len(bytes) - 1)) : Cardinality(c) < MaxReads}} :
           bytes \in BodySet}

LimitSet == {1, 2}
OffsetSet == {0, 1}

\* buffer.split('\n'): the pieces before each "\n", and the piece after the last
RECURSIVE split(_, _, _)
split(buffer, piece, pieces) ==
    IF buffer = <<>> THEN Append(pieces, piece)
    ELSE IF Head(buffer) = NL THEN split(Tail(buffer), <<>>, Append(pieces, piece))
    ELSE split(Tail(buffer), Append(piece, Head(buffer)), pieces)

\* JSON.parse(line) succeeds
parses(line) == line = RecordText

\* lines 680-710: the loop over the complete lines of the buffer; `returned`
\* is the early return of line 708
RECURSIVE processLines(_, _)
processLines(lines, d) ==
    IF lines = <<>> \/ d.returned THEN d
    ELSE IF Head(lines) = BlankText THEN processLines(Tail(lines), d)
    ELSE IF d.recordsSkipped < d.offset
         THEN processLines(Tail(lines), [d EXCEPT !.recordsSkipped = @ + 1])
    ELSE IF Len(d.results) < d.limit
         THEN processLines(Tail(lines),
                  IF parses(Head(lines))
                  THEN [d EXCEPT !.results = Append(@, Head(lines))]
                  ELSE d)
    ELSE [d EXCEPT !.returned = TRUE]

\* variant: the loop over the reads has no exit of its own
enoughResults_Never(resultsCollected, limit) == FALSE

\* lines 719-722
enoughResults(resultsCollected, limit) == resultsCollected >= limit

NoDecode ==
    [pc |-> "idle", limit |-> 0, offset |-> 0, next |-> 1, buffer |-> <<>>,
     recordsSkipped |-> 0, results |-> <<>>, returned |-> FALSE]

\* streamFromS3(fileName, limit, offset) up to its first reader.read()
DecodeCall(limit, offset) ==
    /\ dec.pc # "read"
    /\ dec' = [NoDecode EXCEPT !.pc = "read", !.limit = limit, !.offset = offset]
    /\ UNCHANGED <<files, store, import_log, importers, currentImporter, pendingStarts,
                   allTasks, lastResponse, nImporters, nRuns, crashed, options, stream,
                   search>>

\* lines 725-735: the text left in the buffer after the last read
finalBuffer(d) ==
    IF d.buffer # BlankText /\ Len(d.results) < d.limit /\ d.recordsSkipped >= d.offset
       /\ parses(d.buffer)
    THEN [d EXCEPT !.results = Append(@, d.buffer), !.pc = "done"]
    ELSE [d EXCEPT !.pc = "done"]

\* variant: the text of a read replaces the buffer
appendToBuffer_Replace(buffer, text) == text

\* line 674: buffer += decoder.decode(value, { stream: true })
appendToBuffer(buffer, text) == buffer \o text

\* the call `d` after one reader.read() on the body `body`, up to the next
\* read or the return
readStep(d, body) ==
    IF d.next > Len(body) THEN finalBuffer(d)
    ELSE LET buffer == appendToBuffer(d.buffer, body[d.next])
             hasLine == \E k \in DOMAIN buffer : buffer[k] = NL
             pieces == split(buffer, <<>>, <<>>)
             d1 == [d EXCEPT !.next = @ + 1, !.buffer = buffer]
             d2 == IF hasLine
                   THEN processLines(SubSeq(pieces, 1, Len(pieces) - 1),
                                     [d1 EXCEPT !.buffer = pieces[Len(pieces)]])
                   ELSE d1
         IN IF d2.returned THEN [d2 EXCEPT !.pc = "done"]
            ELSE IF enoughResults(Len(d2.results), d2.limit) THEN finalBuffer(d2)
            ELSE d2

\* one reader.read() of the call in progress
DecodeRead ==
    /\ dec.pc = "read"
    /\ dec' = readStep(dec, stream)
    /\ UNCHANGED <<files, store, import_log, importers, currentImporter, pendingStarts,
                   allTasks, lastResponse, nImporters, nRuns, crashed, options, stream,
                   search>>

\* reader.read() rejects: lines 739-742
DecodeReadFails ==
    /\ dec.pc = "read"
    /\ dec' = [dec EXCEPT !.pc = "failed", !.results = <<>>]
    /\ UNCHANGED <<files, store, import_log, importers, currentImporter, pendingStarts,
                   allTasks, lastResponse, nImporters, nRuns, crashed, options, stream,
                   search>>

----------------------------------------------------------------------------
(* lib/database/sqlite.ts *)

StoredIds == SeqIds(store)

\* transformInspectionForDb, line 165: new Date(x).toISOString() throws a
\* RangeError when the record has no valid timestamp_utc; nothing is written
transformThrows(r) == r.missing = "timestamp_utc"

\* insertDefects, lines 339-369: a defect without code violates NOT NULL; the
\* statement throws after the inspections row has been written
insertDefectsThrows(r) == r.missing = "defect.code"

\* the row written for a record: the columns the searches read, when the
\* record carries them (transformInspectionForDb, lines 162-200)
inspectionRow(r) ==
    IF "state" \in DOMAIN r
    THEN [id |-> r.id, missing |-> r.missing, timestamp_utc |-> r.timestamp_utc,
          city |-> r.city, state |-> r.state, material |-> r.material,
          inspection_score |-> r.inspection_score,
          requires_repair |-> IF r.requires_repair THEN 1 ELSE 0]
    ELSE [id |-> r.id, missing |-> r.missing]

\* variant: plain INSERT, no conflict clause on the primary key
insertInspection_NoReplace(st, r) ==
    Append(st, inspectionRow(r))

\* INSERT OR REPLACE INTO inspections: the row with the same primary key is
\* deleted and the new row is written
insertInspection(st, r) ==
    IF transformThrows(r) THEN st
    ELSE Append(SelectSeq(st, LAMBDA row : row.id # r.id), inspectionRow(r))

\* variant: an error of one record leaves the transaction and rolls it back
RECURSIVE insertInspectionsBatch_Abort(_, _, _)
insertInspectionsBatch_Abort(st, inspections, insertedCount) ==
    IF inspections = <<>> THEN [store |-> st, insertedCount |-> insertedCount]
    ELSE IF transformThrows(Head(inspections)) \/ insertDefectsThrows(Head(inspections))
         THEN [store |-> SubSeq(st, 1, Len(st) - insertedCount), insertedCount |-> 0]
    ELSE insertInspectionsBatch_Abort(Append(st, inspectionRow(Head(inspections))),
                                      Tail(inspections), insertedCount + 1)

\* the transaction of lines 317-328: an error of insertInspection is caught
\* per record and the loop goes on
RECURSIVE insertInspectionsBatch(_, _, _)
insertInspectionsBatch(st, inspections, insertedCount) ==
    IF inspections = <<>> THEN [store |-> st, insertedCount |-> insertedCount]
    ELSE insertInspectionsBatch(
             insertInspection(st, Head(inspections)), Tail(inspections),
             IF transformThrows(Head(inspections)) \/ insertDefectsThrows(Head(inspections))
             THEN insertedCount ELSE insertedCount + 1)

----------------------------------------------------------------------------
(* Search: lib/database/sqlite.ts (indexed backend) and the streaming backend
   searchInspections / streamWithOffsetAndLimit (unnamed/part_008) *)

\* Texts are sequences of characters; an optional filter field is <<>> when
\* absent and <<v>> when it has the value v (an empty text counts as absent).
toLowerCase(text) ==
    [k \in DOMAIN text |-> IF text[k] = "A" THEN "a"
                           ELSE IF text[k] = "B" THEN "b" ELSE text[k]]

\* String.prototype.includes
includes(text, x) ==
    \E i \in 0..(Len(text) - Len(x)) : SubSeq(text, i + 1, i + Len(x)) = x

\* SQL `text LIKE '%' || x || '%'`: letters compare without case, and "_" in
\* the pattern stands for any one character
likeContains(text, x) ==
    \E i \in 0..(Len(text) - Len(x)) :
        \A k \in 1..Len(x) :
            x[k] = "_" \/ toLowerCase(<<text[i + k]>>) = toLowerCase(<<x[k]>>)

\* the columns of the inspections row written for a well-formed inspection
transformInspectionForDb(inspection) ==
    inspectionRow([t |-> "rec", id |-> inspection.id, missing |-> "none",
                   timestamp_utc |-> inspection.timestamp_utc,
                   city |-> inspection.city, state |-> inspection.state,
                   material |-> inspection.material,
                   inspection_score |-> inspection.inspection_score,
                   requires_repair |-> inspection.requires_repair])

\* the WHERE clause getInspectionCount and getInspections build
whereClause(row, filters) ==
    /\ filters.city # <<>> => likeContains(row.city, filters.city)
    /\ filters.state # <<>> => row.state = filters.state
    /\ filters.material # <<>> => likeContains(row.material, filters.material)
    /\ filters.scoreMin # <<>> => row.inspection_score >= filters.scoreMin[1]
    /\ filters.scoreMax # <<>> => row.inspection_score <= filters.scoreMax[1]
    /\ filters.requiresRepair # <<>> =>
          row.requires_repair = (IF filters.requiresRepair[1] THEN 1 ELSE 0)

\* ORDER BY timestamp_utc DESC over the rows `rows` (positions in the table):
\* rows with equal timestamps come in the order of the scan the query plan
\* uses, by ascending rowid after a sort, by descending rowid on the index
RECURSIVE orderByTimestampDesc(_, _, _)
orderByTimestampDesc(st, rows, plan) ==
    IF rows = {} THEN <<>>
    ELSE LET first == CHOOSE k \in rows : \A j \in rows \ {k} :
                         \/ st[k].timestamp_utc > st[j].timestamp_utc
                         \/ /\ st[k].timestamp_utc = st[j].timestamp_utc
                            /\ IF plan = "sort" THEN k < j ELSE k > j
         IN <<st[first]>> \o orderByTimestampDesc(st, rows \ {first}, plan)

\* variant: the count ignores the filters
getInspectionCount_NoWhere(st, filters) == Len(st)

getInspectionCount(st, filters) ==
    Cardinality({k \in DOMAIN st : whereClause(st[k], filters)})

\* variant: the first page starts one page into the result
pageOffset_FromPage(page, pageSize) == page * pageSize

\* sqlite.ts line 466
pageOffset(page, pageSize) == (page - 1) * pageSize

getInspections(st, filters, page, pageSize, plan) ==
    LET sorted == orderByTimestampDesc(
                      st, {k \in DOMAIN st : whereClause(st[k], filters)}, plan)
        offset == pageOffset(page, pageSize)
    IN IF offset >= Len(sorted) THEN <<>>
       ELSE SubSeq(sorted, offset + 1, Min2(offset + pageSize, Len(sorted)))

\* streaming backend, lines 129-144
compileFilterPredicates(filters) ==
    [hasCity |-> filters.city # <<>>, city |-> toLowerCase(filters.city),
     hasState |-> filters.state # <<>>, state |-> toLowerCase(filters.state),
     hasMaterial |-> filters.material # <<>>, material |-> toLowerCase(filters.material),
     hasScoreMin |-> filters.scoreMin # <<>>,
     scoreMin |-> IF filters.scoreMin # <<>> THEN filters.scoreMin[1] ELSE 0,
     hasScoreMax |-> filters.scoreMax # <<>>,
     scoreMax |-> IF filters.scoreMax # <<>> /\ filters.scoreMax[1] # 0
                  THEN filters.scoreMax[1] ELSE 100,
     hasRequiresRepair |-> filters.requiresRepair # <<>>,
     requiresRepair |-> filters.requiresRepair]

\* streaming backend, lines 147-183
fastFilter(inspection, predicates) ==
    /\ ~(predicates.hasCity
         /\ ~includes(toLowerCase(inspection.city), predicates.city))
    /\ ~(predicates.hasState /\ toLowerCase(inspection.state) # predicates.state)
    /\ ~(predicates.hasMaterial
         /\ ~includes(toLowerCase(inspection.material), predicates.material))
    /\ ~(predicates.hasScoreMin /\ inspection.inspection_score < predicates.scoreMin)
    /\ ~(predicates.hasScoreMax /\ inspection.inspection_score > predicates.scoreMax)
    /\ ~(predicates.hasRequiresRepair
         /\ inspection.requires_repair # predicates.requiresRepair[1])

\* streaming backend, lines 222-253
matchesFilters(inspection, filters) ==
    /\ (filters.city # <<>> /\ inspection.city # <<>>) =>
          includes(toLowerCase(inspection.city), toLowerCase(filters.city))
    /\ (filters.state # <<>> /\ inspection.state # <<>>) =>
          toLowerCase(inspection.state) = toLowerCase(filters.state)
    /\ (filters.material # <<>> /\ inspection.material # <<>>) =>
          includes(toLowerCase(inspection.material), toLowerCase(filters.material))
    /\ filters.scoreMin # <<>> => ~(inspection.inspection_score < filters.scoreMin[1])
    /\ filters.scoreMax # <<>> => ~(inspection.inspection_score > filters.scoreMax[1])
    /\ filters.requiresRepair # <<>> =>
          inspection.requires_repair = filters.requiresRepair[1]

\* the filter of streamWithOffsetAndLimit, lines 86-95
streamingAccepts(inspection, filters) ==
    /\ fastFilter(inspection, compileFilterPredicates(filters))
    /\ matchesFilters(inspection, filters)

NoFilters ==
    [city |-> <<>>, state |-> <<>>, material |-> <<>>,
     scoreMin |-> <<>>, scoreMax |-> <<>>, requiresRepair |-> <<>>]

NoSearch ==
    [op |-> "none", plan |-> "sort", inspection |-> <<>>, filters |-> NoFilters,
     page |-> 0, pageSize |-> 0, results |-> <<>>, totalCount |-> 0,
     indexed |-> FALSE, streaming |-> FALSE,
     \* history of a streaming search: records the decoder was asked for and
     \* records it returned, matches the scan skipped or returned
     asked |-> 0, produced |-> 0, observed |-> 0]

\* the inspection and the filters of the request put to the filter of each
\* backend
MatchRecord ==
    /\ search.op = "ask"
    /\ LET inspection == search.inspection[1]
           filters == search.filters
       IN search' = [NoSearch EXCEPT
                        !.op = "match", !.plan = search.plan,
                        !.inspection = <<inspection>>, !.filters = filters,
                        !.indexed = whereClause(transformInspectionForDb(inspection),
                                                filters),
                        !.streaming = streamingAccepts(inspection, filters)]
    /\ UNCHANGED <<files, store, import_log, importers, currentImporter, pendingStarts,
                   allTasks, lastResponse, nImporters, nRuns, crashed, options,
                   stream, dec>>

\* streaming backend, line 73 `const chunkSize = 500` and line 186
\* `const sampleSize = 500`, scaled down; line 209
searchChunkSize == 2
sampleSize == 2
estimatedFileSize == 5000

\* streamWithOffsetAndLimit, lines 100-114: the loop over the filtered chunk;
\* `returned` is the return of line 112
RECURSIVE processFiltered(_, _, _, _)
processFiltered(filteredChunk, skipCount, limitCount, s) ==
    IF filteredChunk = <<>> THEN s
    ELSE IF s.localSkipped < skipCount
         THEN processFiltered(Tail(filteredChunk), skipCount, limitCount,
                              [s EXCEPT !.localSkipped = @ + 1])
    ELSE IF Len(s.matches) < limitCount
         THEN processFiltered(Tail(filteredChunk), skipCount, limitCount,
                              [s EXCEPT !.matches = Append(@, Head(filteredChunk))])
    ELSE [s EXCEPT !.returned = TRUE]

\* streamWithOffsetAndLimit, lines 82-125: the loop over the chunks of one file
RECURSIVE scanFile(_, _, _, _, _)
scanFile(lines, filters, skipCount, limitCount, s) ==
    IF ~(Len(s.matches) < limitCount) THEN s
    ELSE LET chunk == streamFromS3(lines, searchChunkSize, s.processed)
             filteredChunk == SelectSeq(chunk, LAMBDA inspection :
                                                   streamingAccepts(inspection, filters))
             s1 == [s EXCEPT !.asked = @ + searchChunkSize,
                             !.produced = @ + Len(chunk)]
             s2 == processFiltered(filteredChunk, skipCount, limitCount,
                                   [s1 EXCEPT !.processed = @ + Len(chunk)])
         IN IF Len(chunk) = 0 THEN s1
            ELSE IF s2.returned \/ Len(chunk) < searchChunkSize THEN s2
            ELSE scanFile(lines, filters, skipCount, limitCount, s2)

streamWithOffsetAndLimit(lines, filters, skipCount, limitCount) ==
    scanFile(lines, filters, skipCount, limitCount,
             [matches |-> <<>>, processed |-> 0, localSkipped |-> 0,
              returned |-> FALSE, asked |-> 0, produced |-> 0])

\* Math.round(a / b) for a >= 0, b > 0
round(a, b) == (2 * a + b) \div (2 * b)

\* estimateTotalCount, lines 185-220: the samples of the files from index k on
RECURSIVE sampleFiles(_, _, _)
sampleFiles(fs, filters, k) ==
    IF k > Len(FileNames) THEN [totalSampled |-> 0, totalMatches |-> 0]
    ELSE LET sample == streamFromS3(fs[FileNames[k]], sampleSize, 0)
             sampleMatches == SelectSeq(sample, LAMBDA inspection :
                                                    matchesFilters(inspection, filters))
             rest == sampleFiles(fs, filters, k + 1)
         IN [totalSampled |-> Len(sample) + rest.totalSampled,
             totalMatches |-> Len(sampleMatches) + rest.totalMatches]

estimateTotalCount(fs, filters) ==
    LET t == sampleFiles(fs, filters, 1)
        estimatedTotal == round(t.totalMatches * estimatedFileSize * Len(FileNames),
                                t.totalSampled)
    IN IF t.totalSampled = 0 THEN 0
       ELSE IF t.totalMatches > estimatedTotal THEN t.totalMatches ELSE estimatedTotal

\* searchInspections, lines 28-47: the loop over filesToSearch from index k on
RECURSIVE searchFiles(_, _, _, _, _, _)
searchFiles(fs, filters, offset, pageSize, k, r) ==
    IF k > Len(FileNames) \/ Len(r.results) >= pageSize THEN r
    ELSE LET skipCount == IF offset - r.recordsSkipped > 0
                          THEN offset - r.recordsSkipped ELSE 0
             f == streamWithOffsetAndLimit(fs[FileNames[k]], filters, skipCount,
                                           pageSize - Len(r.results))
         IN searchFiles(fs, filters, offset, pageSize, k + 1,
                        [results |-> r.results \o f.matches,
                         recordsSkipped |-> r.recordsSkipped + f.processed,
                         asked |-> r.asked + f.asked,
                         produced |-> r.produced + f.produced,
                         observed |-> r.observed + f.localSkipped + Len(f.matches)])

\* streaming backend: searchInspections(filters, page, pageSize), lines 4-63
SearchStreaming(filters, page, pageSize) ==
    LET r == searchFiles(files, filters, (page - 1) * pageSize, pageSize, 1,
                         [results |-> <<>>, recordsSkipped |-> 0, asked |-> 0,
                          produced |-> 0, observed |-> 0])
    IN /\ search' = [NoSearch EXCEPT
                        !.op = "streaming", !.plan = search.plan, !.filters = filters,
                        !.page = page, !.pageSize = pageSize,
                        !.results = r.results,
                        !.totalCount = estimateTotalCount(files, filters),
                        !.asked = r.asked + sampleSize * Len(FileNames),
                        !.produced = r.produced
                                     + sampleFiles(files, filters, 1).totalSampled,
                        !.observed = r.observed]
       /\ UNCHANGED <<files, store, import_log, importers, currentImporter, pendingStarts,
                      allTasks, lastResponse, nImporters, nRuns, crashed, options,
                      stream, dec>>

----------------------------------------------------------------------------
(* lib/database/importer.ts: import_log helpers *)

ResumableStatus == {"running", "paused", "failed"}

startImportLog(log, fileName) ==
    Append(log, [source_file |-> fileName, records_processed |-> 0,
                 records_imported |-> 0, errors |-> 0, status |-> "running",
                 completed_at |-> FALSE, error_message |-> ""])

updateImportLog(log, logId, progress) ==
    [log EXCEPT ![logId] = [@ EXCEPT !.records_processed = progress.recordsProcessed,
                                     !.records_imported = progress.recordsImported,
                                     !.errors = progress.errors,
                                     !.status = progress.status]]

\* variant: the final UPDATE leaves the counters out
completeImportLog_NoCounters(log, logId, progress, error) ==
    [log EXCEPT ![logId] = [@ EXCEPT !.completed_at = TRUE,
                                     !.status = progress.status,
                                     !.error_message = error]]

completeImportLog(log, logId, progress, error) ==
    [log EXCEPT ![logId] = [@ EXCEPT !.completed_at = TRUE,
                                     !.records_processed = progress.recordsProcessed,
                                     !.records_imported = progress.recordsImported,
                                     !.errors = progress.errors,
                                     !.status = progress.status,
                                     !.error_message = error]]

\* ids of the rows getResumableImports returns (it orders them by started_at DESC)
getResumableImports(log) ==
    {k \in DOMAIN log : log[k].status \in ResumableStatus /\ ~log[k].completed_at}

\* getResumableImports().find(imp => imp.source_file === fileName); 0 = undefined
findResumable(log, fileName) ==
    LET S == {k \in getResumableImports(log) : log[k].source_file = fileName}
    IN IF S = {} THEN 0 ELSE Max(S)

\* variant: the status filter is missing, completed rows count too
calculateResumeOffset_AnyStatus(log, fileName) ==
    LET S == {k \in DOMAIN log : log[k].source_file = fileName}
    IN IF S = {} THEN 0 ELSE log[Max(S)].records_processed

\* variant: the offset is taken as the index of the last record, not a count
calculateResumeOffset_OffByOne(log, fileName) ==
    LET S == {k \in DOMAIN log : log[k].source_file = fileName
                                 /\ log[k].status \in ResumableStatus}
    IN IF S = {} \/ log[Max(S)].records_processed = 0 THEN 0
       ELSE log[Max(S)].records_processed + 1

calculateResumeOffset(log, fileName) ==
    LET S == {k \in DOMAIN log : log[k].source_file = fileName
                                 /\ log[k].status \in ResumableStatus}
    IN IF S = {} THEN 0 ELSE log[Max(S)].records_processed

\* variant: any row in a resumable status will do
canResumeImport_AnyOpenRow(log, fileName) ==
    \E k \in DOMAIN log : log[k].source_file = fileName
                            /\ log[k].status \in ResumableStatus

canResumeImport(log, fileName) == calculateResumeOffset(log, fileName) > 0

----------------------------------------------------------------------------
(* lib/database/importer.ts: class DataImporter *)

OptionSet == [batchSize : 1..MaxBatch, skipDuplicates : BOOLEAN, validateData : BOOLEAN]
DEFAULT_OPTIONS == [batchSize |-> 1, skipDuplicates |-> TRUE, validateData |-> TRUE]

NoProgress == [recordsProcessed |-> 0, recordsImported |-> 0, errors |-> 0,
               status |-> "none", errorMessage |-> ""]

Counters(p) == <<p.recordsProcessed, p.recordsImported, p.errors>>

\* what the properties observe of a run (history, not program state)
NoObs == [resume |-> FALSE, checkpoint |-> 0, startOffset |-> 0,
          startCounters |-> <<0, 0, 0>>, newRow |-> FALSE, committed |-> 0,
          stopped |-> FALSE, lastCounters |-> <<0, 0, 0>>,
          afterCrash |-> FALSE, redone |-> 0,
          afterCompleted |-> FALSE, startStore |-> <<>>, fetched |-> <<>>]

\* new DataImporter(options)
NewImporter ==
    [isRunning |-> FALSE, shouldStop |-> FALSE, pc |-> "idle",
     fileName |-> "", offset |-> 0, logId |-> 0, progress |-> NoProgress,
     chunk |-> <<>>, bi |-> 0, filteredBatch |-> <<>>, obs |-> NoObs]

SyncPc == {"batch", "insert", "persist", "finalize"}
NoSync == \A j \in ImporterIds : importers[j].pc \notin SyncPc
Active(i) == importers[i].pc \notin {"idle", "done"}

\* variant: the location is not checked
validateRecord_NoLocation(record) ==
    /\ record.id # ""
    /\ record.missing \notin {"material", "diameter_in",
                              "inspection_score", "requires_repair"}

validateRecord(record) ==
    /\ record.id # ""
    /\ record.missing \notin {"city", "state", "material", "diameter_in",
                              "inspection_score", "requires_repair"}

\* variant: nothing is filtered
filterDuplicates_KeepAll(records, st) == records

filterDuplicates(records, st) ==
    SelectSeq(records, LAMBDA record : record.id \notin SeqIds(st))

\* createBatches(chunk, batchSize)[bi]
batchOf(chunk, batchSize, bi) ==
    SubSeq(chunk, (bi - 1) * batchSize + 1, Min2(bi * batchSize, Len(chunk)))
batchCount(chunk, batchSize) == (Len(chunk) + batchSize - 1) \div batchSize

\* recordsProcessed of the most recent checkpoint of the file whose status is
\* not completed (0 when there is none): the value a resume is specified to use
LastCheckpoint(log, fileName) ==
    LET S == {k \in DOMAIN log : log[k].source_file = fileName
                                 /\ log[k].status # "completed"}
    IN IF S = {} THEN 0 ELSE log[Max(S)].records_processed

HasCompleted(log, fileName) ==
    \E k \in DOMAIN log : log[k].source_file = fileName /\ log[k].status = "completed"

\* importFromS3, lines 46-76: the importer `imp` after the synchronous prefix
\* and the import_log it leaves
importFromS3Begin(imp, log, fileName, resume) ==
    LET tryResume == resume \/ canResumeImport(log, fileName)
        offset == IF tryResume THEN calculateResumeOffset(log, fileName) ELSE 0
        existingProgress == IF tryResume /\ offset > 0
                            THEN findResumable(log, fileName) ELSE 0
        log2 == IF existingProgress # 0 THEN log ELSE startImportLog(log, fileName)
        logId == IF existingProgress # 0 THEN existingProgress ELSE Len(log2)
        progress ==
            [recordsProcessed |-> IF existingProgress # 0
                                  THEN log[existingProgress].records_processed
                                  ELSE offset,
             recordsImported |-> IF existingProgress # 0
                                 THEN log[existingProgress].records_imported ELSE 0,
             errors |-> IF existingProgress # 0
                        THEN log[existingProgress].errors ELSE 0,
             status |-> "running", errorMessage |-> ""]
    IN [imp |-> [imp EXCEPT !.isRunning = TRUE, !.shouldStop = FALSE, !.pc = "fetch",
                            !.fileName = fileName, !.offset = offset,
                            !.logId = logId, !.progress = progress,
                            !.chunk = <<>>, !.bi = 0, !.filteredBatch = <<>>,
                            !.obs = [NoObs EXCEPT
                                !.resume = resume,
                                !.checkpoint = LastCheckpoint(log, fileName),
                                !.startOffset = offset,
                                !.startCounters = Counters(progress),
                                !.newRow = (Len(log2) > Len(log)),
                                !.lastCounters = Counters(progress),
                                !.afterCrash = (crashed.file = fileName),
                                !.redone = IF crashed.file = fileName
                                           THEN crashed.position - offset ELSE 0,
                                !.afterCompleted = HasCompleted(log, fileName),
                                !.startStore = IF HasCompleted(log, fileName)
                                               THEN store ELSE <<>>]],
        log |-> log2]

NoCrash == [file |-> "", position |-> 0]

RunBookkeeping(fileName) ==
    /\ nRuns' = nRuns + 1
    /\ crashed' = IF crashed.file = fileName THEN NoCrash ELSE crashed

\* line 83: streamFromS3 resolves with a chunk
FetchOk(i) ==
    LET imp == importers[i]
        chunk == streamFromS3(files[imp.fileName], chunkSize, imp.offset)
    IN /\ imp.pc = "fetch"
       /\ NoSync
       /\ importers' = [importers EXCEPT ![i] =
             IF Len(chunk) = 0
             THEN [imp EXCEPT !.pc = "finalize"]
             ELSE [imp EXCEPT !.pc = "batch", !.chunk = chunk, !.bi = 1,
                              !.obs = [@ EXCEPT !.fetched = @ \o chunk]]]
       /\ UNCHANGED <<files, store, import_log, currentImporter, pendingStarts,
                      allTasks, lastResponse, nImporters, nRuns, crashed, options,
                   stream, dec, search>>

\* line 83 rejects; lines 144-153
FetchFail(i) ==
    LET imp == importers[i]
        progress == [imp.progress EXCEPT !.status = "failed",
                                         !.errorMessage = "Failed to fetch from S3"]
    IN /\ imp.pc = "fetch"
       /\ NoSync
       /\ import_log' = completeImportLog(import_log, imp.logId, progress,
                                          "Failed to fetch from S3")
       /\ importers' = [importers EXCEPT ![i] =
             [imp EXCEPT !.pc = "done", !.isRunning = FALSE, !.progress = progress]]
       /\ UNCHANGED <<files, store, currentImporter, pendingStarts,
                      allTasks, lastResponse, nImporters, nRuns, crashed, options,
                   stream, dec, search>>

\* lines 93-105: top of the batch loop up to `await this.filterDuplicates`
BatchBegin(i) ==
    LET imp == importers[i]
        batch == batchOf(imp.chunk, options.batchSize, imp.bi)
        validBatch == IF options.validateData
                      THEN SelectSeq(batch, validateRecord) ELSE batch
    IN /\ imp.pc = "batch"
       /\ importers' = [importers EXCEPT ![i] =
             IF imp.shouldStop
             THEN [imp EXCEPT !.pc = "finalize", !.offset = @ + Len(imp.chunk),
                              !.chunk = <<>>, !.bi = 0]
             ELSE IF options.skipDuplicates
             THEN [imp EXCEPT !.pc = "dedup",
                              !.filteredBatch = filterDuplicates(validBatch, store)]
             ELSE [imp EXCEPT !.pc = "insert", !.filteredBatch = validBatch]]
       /\ UNCHANGED <<files, store, import_log, currentImporter, pendingStarts,
                      allTasks, lastResponse, nImporters, nRuns, crashed, options,
                   stream, dec, search>>

\* lines 107-112: the batch transaction and the in-memory counters
InsertBatch(i) ==
    LET imp == importers[i]
        batch == batchOf(imp.chunk, options.batchSize, imp.bi)
        r == insertInspectionsBatch(store, imp.filteredBatch, 0)
        progress == [imp.progress EXCEPT
                        !.recordsProcessed = @ + Len(batch),
                        !.recordsImported = @ + r.insertedCount,
                        !.errors = @ + (Len(batch) - r.insertedCount)]
    IN /\ \/ imp.pc = "insert"
          \/ imp.pc = "dedup" /\ NoSync
       /\ store' = r.store
       /\ importers' = [importers EXCEPT ![i] =
             [imp EXCEPT !.pc = "persist", !.progress = progress,
                         !.filteredBatch = <<>>,
                         !.obs = [@ EXCEPT !.committed = @ + Len(batch),
                                           !.lastCounters = Counters(progress)]]]
       /\ UNCHANGED <<files, import_log, currentImporter, pendingStarts,
                      allTasks, lastResponse, nImporters, nRuns, crashed, options,
                   stream, dec, search>>

\* lines 115-133: updateImportLog, then on to the next batch, chunk or the end
Persist(i) ==
    LET imp == importers[i]
        more == imp.bi < batchCount(imp.chunk, options.batchSize)
    IN /\ imp.pc = "persist"
       /\ import_log' = updateImportLog(import_log, imp.logId, imp.progress)
       /\ importers' = [importers EXCEPT ![i] =
             IF more
             THEN [imp EXCEPT !.pc = "batch", !.bi = @ + 1]
             ELSE [imp EXCEPT !.offset = @ + Len(imp.chunk),
                              !.chunk = <<>>, !.bi = 0,
                              !.pc = IF Len(imp.chunk) < chunkSize \/ imp.shouldStop
                                     THEN "finalize" ELSE "fetch"]]
       /\ UNCHANGED <<files, store, currentImporter, pendingStarts,
                      allTasks, lastResponse, nImporters, nRuns, crashed, options,
                   stream, dec, search>>

\* variant: the stop flag is not consulted
finalStatus_IgnoreStop(shouldStop) == "completed"

\* line 136
finalStatus(shouldStop) == IF shouldStop THEN "paused" ELSE "completed"

\* lines 135-153
Finalize(i) ==
    LET imp == importers[i]
        progress == [imp.progress EXCEPT
                        !.status = finalStatus(imp.shouldStop)]
    IN /\ imp.pc = "finalize"
       /\ import_log' = completeImportLog(import_log, imp.logId, progress, "")
       /\ importers' = [importers EXCEPT ![i] =
             [imp EXCEPT !.pc = "done", !.isRunning = FALSE, !.progress = progress]]
       /\ UNCHANGED <<files, store, currentImporter, pendingStarts,
                      allTasks, lastResponse, nImporters, nRuns, crashed, options,
                   stream, dec, search>>

\* stop(), called while the run is suspended at an await
Stop(i) ==
    /\ importers[i].pc \in {"fetch", "dedup"}
    /\ NoSync
    /\ ~importers[i].shouldStop
    /\ importers' = [importers EXCEPT ![i] =
          [@ EXCEPT !.shouldStop = TRUE, !.obs = [@ EXCEPT !.stopped = TRUE]]]
    /\ UNCHANGED <<files, store, import_log, currentImporter, pendingStarts,
                   allTasks, lastResponse, nImporters, nRuns, crashed, options,
                   stream, dec, search>>

----------------------------------------------------------------------------
(* lib/database/importer.ts: importAllFiles, lines 177-216 *)

\* stoppedChild: history, the child run in progress when stop() was called on
\* the parent
IdleTask == [pc |-> "idle", i |-> 0, child |-> 0, results |-> <<>>,
             stoppedChild |-> 0]

\* one turn of the file loop from index i: either the loop ends (shouldStop, or
\* no file left) or a child importer is constructed and its importFromS3 called
AllFilesTurn(p, task, i, shouldStop) ==
    LET child == nImporters' 
        b == importFromS3Begin(NewImporter, import_log, FileNames[i], FALSE)
    IN IF i > Len(FileNames) \/ shouldStop
       THEN /\ allTasks' = [allTasks EXCEPT ![p] = [task EXCEPT !.pc = "done", !.child = 0]]
            /\ UNCHANGED <<import_log, nRuns, crashed>>
            /\ importers' = importers
       ELSE /\ allTasks' = [allTasks EXCEPT ![p] =
                              [task EXCEPT !.pc = "await", !.i = i, !.child = child]]
            /\ importers' = [importers EXCEPT ![child] = b.imp]
            /\ import_log' = b.log
            /\ RunBookkeeping(FileNames[i])

\* variant: a failed file does not end the loop
stopOnFailure_Never(result) == FALSE

\* lines 209-212
stopOnFailure(result) == result.status = "failed"

\* `await importer.importFromS3(fileName)` returns; lines 207-212 and the next turn
AllFilesNext(p) ==
    LET task == allTasks[p]
        result == [fileName |-> importers[task.child].fileName,
                   status |-> importers[task.child].progress.status]
        task2 == [task EXCEPT !.results = Append(@, result)]
    IN /\ task.pc = "await"
       /\ importers[task.child].pc = "done"
       /\ NoSync
       /\ IF stopOnFailure(result)
          THEN /\ allTasks' = [allTasks EXCEPT ![p] = [task2 EXCEPT !.pc = "done", !.child = 0]]
               /\ UNCHANGED <<importers, import_log, nImporters, nRuns, crashed>>
          ELSE /\ nImporters' = IF task.i < Len(FileNames) /\ ~importers[p].shouldStop
                                THEN nImporters + 1 ELSE nImporters
               /\ nImporters' <= MaxImporters
               /\ nImporters' > nImporters => nRuns < MaxRuns
               /\ AllFilesTurn(p, task2, task.i + 1, importers[p].shouldStop)
       /\ UNCHANGED <<files, store, currentImporter, pendingStarts, lastResponse, options,
                   stream, dec, search>>

\* new DataImporter(options).importAllFiles(), called directly
CallImportAllFiles ==
    LET n == nImporters + 1
    IN /\ NoSync
       /\ \A p \in ImporterIds : allTasks[p].pc # "await"
       /\ n + 1 <= MaxImporters
       /\ nRuns < MaxRuns
       /\ nImporters' = n + 1
       /\ AllFilesTurn(n, IdleTask, 1, FALSE)
       /\ UNCHANGED <<files, store, currentImporter, pendingStarts, lastResponse,
                      options, stream, dec, search>>

\* stop() on the importer whose importAllFiles is awaiting a file: lines 226-229
StopAllFiles(p) ==
    /\ allTasks[p].pc = "await"
    /\ NoSync
    /\ ~importers[p].shouldStop
    /\ importers' = [importers EXCEPT ![p] =
          [@ EXCEPT !.shouldStop = TRUE, !.obs = [@ EXCEPT !.stopped = TRUE]]]
    /\ allTasks' = [allTasks EXCEPT ![p] =
          [@ EXCEPT !.stoppedChild = allTasks[p].child]]
    /\ UNCHANGED <<files, store, import_log, currentImporter, pendingStarts,
                   lastResponse, nImporters, nRuns, crashed, options,
                   stream, dec, search>>

----------------------------------------------------------------------------
(* app/api/import/route.ts *)

ActiveRuns == {i \in ImporterIds : Active(i)}

ImporterRunning == currentImporter # 0 /\ importers[currentImporter].isRunning

\* startImport, lines 73-78: the guard answers 409
StartImportRejected ==
    /\ NoSync
    /\ ImporterRunning
    /\ lastResponse' = 409
    /\ UNCHANGED <<files, store, import_log, importers, currentImporter, pendingStarts,
                   allTasks, nImporters, nRuns, crashed, options,
                   stream, dec, search>>

\* startImport, lines 73-80: the guard passes and the handler awaits the body;
\* fileName "" stands for a body without fileName
StartImportAccepted(fileName) ==
    /\ NoSync
    /\ ~ImporterRunning
    /\ nImporters + Len(pendingStarts) < MaxImporters
    /\ pendingStarts' = Append(pendingStarts,
                               [fileName |-> fileName, sawActive |-> ActiveRuns # {}])
    /\ UNCHANGED <<files, store, import_log, importers, currentImporter, lastResponse,
                   allTasks, nImporters, nRuns, crashed, options,
                   stream, dec, search>>

RemoveAt(s, k) == SubSeq(s, 1, k - 1) \o SubSeq(s, k + 1, Len(s))

\* startImport, lines 80-149, single-file mode
StartImportSingle(k) ==
    LET fileName == pendingStarts[k].fileName
        n == nImporters + 1
        b == importFromS3Begin(NewImporter, import_log, fileName, FALSE)
    IN /\ k \in DOMAIN pendingStarts
       /\ NoSync
       /\ fileName # ""
       /\ n <= MaxImporters
       /\ nRuns < MaxRuns
       /\ pendingStarts' = RemoveAt(pendingStarts, k)
       /\ nImporters' = n
       /\ currentImporter' = n
       /\ importers' = [importers EXCEPT ![n] = b.imp]
       /\ import_log' = b.log
       /\ RunBookkeeping(fileName)
       /\ lastResponse' = 200
       /\ UNCHANGED <<files, store, allTasks, options,
                   stream, dec, search>>

\* startImport, lines 80-149, all-files mode: the importer the route keeps is
\* the parent; importAllFiles runs each file on a child importer
StartImportAll(k) ==
    LET n == nImporters + 1
    IN /\ k \in DOMAIN pendingStarts
       /\ NoSync
       /\ pendingStarts[k].fileName = ""
       /\ n + 1 <= MaxImporters
       /\ nRuns < MaxRuns
       /\ pendingStarts' = RemoveAt(pendingStarts, k)
       /\ nImporters' = n + 1
       /\ currentImporter' = n
       /\ AllFilesTurn(n, IdleTask, 1, FALSE)
       /\ lastResponse' = 200
       /\ UNCHANGED <<files, store, options,
                   stream, dec, search>>

\* stopImport, lines 152-166
StopImportNotRunning ==
    /\ NoSync
    /\ ~ImporterRunning
    /\ lastResponse' = 404
    /\ UNCHANGED <<files, store, import_log, importers, currentImporter, pendingStarts,
                   allTasks, nImporters, nRuns, crashed, options,
                   stream, dec, search>>

StopImport ==
    /\ NoSync
    /\ ImporterRunning
    /\ importers' = [importers EXCEPT ![currentImporter] =
          [@ EXCEPT !.shouldStop = TRUE, !.obs = [@ EXCEPT !.stopped = TRUE]]]
    /\ lastResponse' = 200
    /\ UNCHANGED <<files, store, import_log, currentImporter, pendingStarts,
                   allTasks, nImporters, nRuns, crashed, options,
                   stream, dec, search>>

----------------------------------------------------------------------------
(* Direct use of the class (scripts, CLI): one importer, one call at a time *)

\* new DataImporter(options).importFromS3(fileName, resume)
CallImportFromS3(fileName, resume) ==
    LET b == importFromS3Begin(NewImporter, import_log, fileName, resume)
    IN /\ ~Active(1)
       /\ nRuns < MaxRuns
       /\ importers' = [importers EXCEPT ![1] = b.imp]
       /\ import_log' = b.log
       /\ RunBookkeeping(fileName)
       /\ UNCHANGED <<files, store, currentImporter, pendingStarts,
                      allTasks, lastResponse, nImporters, options,
                   stream, dec, search>>

\* new DataImporter(options).resumeImport(fileName), lines 161-168
CallResumeImport(fileName) ==
    LET b == importFromS3Begin(NewImporter, import_log, fileName, TRUE)
    IN /\ ~Active(1)
       /\ nRuns < MaxRuns
       /\ canResumeImport(import_log, fileName)
       /\ importers' = [importers EXCEPT ![1] = b.imp]
       /\ import_log' = b.log
       /\ RunBookkeeping(fileName)
       /\ UNCHANGED <<files, store, currentImporter, pendingStarts,
                      allTasks, lastResponse, nImporters, options,
                   stream, dec, search>>

\* new DataImporter(options).resumeImport(fileName), lines 162-164: the call
\* throws; the caller is left with the error and an importer that never ran
CallResumeImportThrows(fileName) ==
    /\ ~Active(1)
    /\ ~canResumeImport(import_log, fileName)
    /\ importers' = [importers EXCEPT ![1] =
          [NewImporter EXCEPT !.fileName = fileName,
                              !.progress = [NoProgress EXCEPT
                                  !.errorMessage = "Cannot resume import"]]]
    /\ UNCHANGED <<files, store, import_log, currentImporter, pendingStarts,
                   allTasks, lastResponse, nImporters, nRuns, crashed, options,
                   stream, dec, search>>

\* the process dies and is started again: the tables stay, the objects go
Crash ==
    /\ Active(1)
    /\ crashed' = [file |-> importers[1].fileName,
                   position |-> importers[1].obs.startOffset
                                + importers[1].obs.committed]
    /\ importers' = [j \in ImporterIds |-> NewImporter]
    /\ UNCHANGED <<files, store, import_log, currentImporter, pendingStarts,
                   allTasks, lastResponse, nImporters, nRuns, options,
                   stream, dec, search>>

----------------------------------------------------------------------------
(* Search requests of the process that imports *)

\* lib/database/importer.ts searchInspections(filters, page, pageSize),
\* lines 475-500: the count and the page are read without an await in between
SearchIndexed(filters, page, pageSize) ==
    /\ NoSync
    /\ search' = [NoSearch EXCEPT
                     !.op = "indexed", !.plan = search.plan, !.filters = filters,
                     !.page = page, !.pageSize = pageSize,
                     !.totalCount = getInspectionCount(store, filters),
                     !.results = getInspections(store, filters, page, pageSize,
                                                search.plan)]
    /\ UNCHANGED <<files, store, import_log, importers, currentImporter, pendingStarts,
                   allTasks, lastResponse, nImporters, nRuns, crashed, options,
                   stream, dec>>

----------------------------------------------------------------------------

InitProcess ==
    /\ store = <<>>
    /\ import_log = <<>>
    /\ importers = [j \in ImporterIds |-> NewImporter]
    /\ currentImporter = 0
    /\ pendingStarts = <<>>
    /\ allTasks = [j \in ImporterIds |-> IdleTask]
    /\ lastResponse = 0
    /\ nImporters = 0
    /\ nRuns = 0
    /\ crashed = NoCrash

Init ==
    /\ files \in {[part1 |-> s, part2 |-> Part2Lines] : s \in SourceSet}
    /\ options \in OptionSet
    /\ InitProcess
    /\ stream = <<>>
    /\ dec = NoDecode
    /\ search = NoSearch

RunStep(i) ==
    \/ FetchOk(i)
    \/ FetchFail(i)
    \/ BatchBegin(i)
    \/ InsertBatch(i)
    \/ Persist(i)
    \/ Finalize(i)

Next ==
    \/ \E resume \in BOOLEAN : CallImportFromS3(FileNames[1], resume)
    \/ CallResumeImport(FileNames[1])
    \/ CallResumeImportThrows(FileNames[1])
    \/ \E i \in ImporterIds : RunStep(i)
    \/ \E i \in ImporterIds : Stop(i)
    \/ Crash

Spec == Init /\ [][Next]_vars

\* The import API of one server process
RouteSourceSet == {<<Rec("a", "none")>>, <<Rec("a", "none"), Rec("b", "none")>>}

InitRoute ==
    /\ files \in {[part1 |-> s, part2 |-> Part2Lines] : s \in RouteSourceSet}
    /\ options \in {o \in OptionSet : o.validateData /\ o.batchSize = 1}
    /\ InitProcess
    /\ stream = <<>>
    /\ dec = NoDecode
    /\ search = NoSearch

NextRoute ==
    \/ StartImportRejected
    \/ \E f \in FileSet \cup {""} : StartImportAccepted(f)
    \/ \E k \in 1..MaxImporters : StartImportSingle(k)
    \/ \E k \in 1..MaxImporters : StartImportAll(k)
    \/ StopImportNotRunning
    \/ StopImport
    \/ \E p \in ImporterIds : AllFilesNext(p)
    \/ \E i \in ImporterIds : RunStep(i)

SpecRoute == InitRoute /\ [][NextRoute]_vars

\* Runs over sources whose records can fail validation or fail to be written
RecordAlphabet ==
    LineAlphabet \cup {Rec("", "id"), Rec("d", "timestamp_utc"), Rec("e", "defect.code")}

RecordSourceSet == UNION {[1..n -> RecordAlphabet] : n \in 0..MaxLines}

InitRecords ==
    /\ files \in {[part1 |-> s, part2 |-> Part2Lines] : s \in RecordSourceSet}
    /\ options \in OptionSet
    /\ InitProcess
    /\ stream = <<>>
    /\ dec = NoDecode
    /\ search = NoSearch

NextRecords ==
    \/ CallImportFromS3(FileNames[1], FALSE)
    \/ \E i \in ImporterIds : RunStep(i)

SpecRecords == InitRecords /\ [][NextRecords]_vars

\* importAllFiles called directly, and stop() called on that importer
InitAllFiles ==
    /\ files \in {[part1 |-> s, part2 |-> Part2Lines] : s \in RouteSourceSet}
    /\ options \in {o \in OptionSet : o.validateData}
    /\ InitProcess
    /\ stream = <<>>
    /\ dec = NoDecode
    /\ search = NoSearch

NextAllFiles ==
    \/ CallImportAllFiles
    \/ \E p \in ImporterIds : StopAllFiles(p)
    \/ \E p \in ImporterIds : AllFilesNext(p)
    \/ \E i \in ImporterIds : RunStep(i)

SpecAllFiles == InitAllFiles /\ [][NextAllFiles]_vars

\* The chunks a run decodes from a source with malformed and blank lines
MaxChunkLines == 3

BlankLine == [t |-> "blank", id |-> "", missing |-> "none"]

\* line k is the record of identifier ChunkIds[k], a malformed line or a blank line
ChunkIds == <<"a", "b", "c", "d">>

ChunkSourceSet ==
    UNION {{[k \in 1..n |-> IF kind[k] = "rec" THEN Rec(ChunkIds[k], "none")
                            ELSE IF kind[k] = "bad" THEN BadLine ELSE BlankLine] :
               kind \in [1..n -> {"rec", "bad", "blank"}]} :
           n \in 0..MaxChunkLines}

InitChunks ==
    /\ files \in {[part1 |-> s, part2 |-> Part2Lines] : s \in ChunkSourceSet}
    /\ options \in {o \in OptionSet : ~o.validateData /\ ~o.skipDuplicates}
    /\ InitProcess
    /\ stream = <<>>
    /\ dec = NoDecode
    /\ search = NoSearch

NextChunks ==
    \/ CallImportFromS3(FileNames[1], FALSE)
    \/ \E i \in ImporterIds : RunStep(i)

SpecChunks == InitChunks /\ [][NextChunks]_vars

\* Calls of streamFromS3 on one response body
InitDecode ==
    /\ files = [part1 |-> <<>>, part2 |-> Part2Lines]
    /\ options = DEFAULT_OPTIONS
    /\ InitProcess
    /\ stream \in StreamSet
    /\ dec = NoDecode
    /\ search = NoSearch

NextDecode ==
    \/ \E limit \in LimitSet, offset \in OffsetSet : DecodeCall(limit, offset)
    \/ DecodeRead
    \/ DecodeReadFails

SpecDecode == InitDecode /\ [][NextDecode]_vars

\* The filters of the two search backends, one inspection at a time
InspectionSet ==
    [id : {"r1"}, timestamp_utc : {1},
     city : {<<>>, <<"A", "b">>}, state : {<<"A">>, <<"a">>, <<"b">>},
     material : {<<"a">>, <<"B">>},
     inspection_score : 0..MaxScore, requires_repair : BOOLEAN]

FilterSet ==
    [city : {<<>>, <<"a">>, <<"_">>}, state : {<<>>, <<"a">>, <<"A">>},
     material : {<<>>, <<"b">>},
     scoreMin : {<<>>} \cup {<<n>> : n \in 0..(MaxScore - 1)},
     scoreMax : {<<>>} \cup {<<n>> : n \in 0..(MaxScore - 1)},
     requiresRepair : {<<>>, <<TRUE>>, <<FALSE>>}]

InitPredicates ==
    /\ files = [part1 |-> <<>>, part2 |-> Part2Lines]
    /\ options = DEFAULT_OPTIONS
    /\ InitProcess
    /\ stream = <<>>
    /\ dec = NoDecode
    /\ search \in {[NoSearch EXCEPT !.op = "ask", !.inspection = <<inspection>>,
                                    !.filters = filters] :
                       inspection \in InspectionSet, filters \in FilterSet}

NextPredicates == MatchRecord

SpecPredicates == InitPredicates /\ [][NextPredicates]_vars

\* Pages of the indexed backend over a Store that does not change
SearchRow(k, t, st) ==
    transformInspectionForDb(
        [id |-> <<"r", k>>, timestamp_utc |-> t, city |-> <<"A", "b">>, state |-> st,
         material |-> <<"a">>, inspection_score |-> 1, requires_repair |-> TRUE])

SearchStoreSet ==
    UNION {{[k \in 1..n |-> SearchRow(k, ts[k], sts[k])] :
               ts \in [1..n -> 1..MaxTime], sts \in [1..n -> {<<"a">>, <<"b">>}]} :
           n \in 0..MaxRows}

PageFilterSet == {NoFilters, [NoFilters EXCEPT !.state = <<"a">>]}

InitSearch ==
    /\ files = [part1 |-> <<>>, part2 |-> Part2Lines]
    /\ options = DEFAULT_OPTIONS
    /\ import_log = <<>>
    /\ importers = [j \in ImporterIds |-> NewImporter]
    /\ currentImporter = 0
    /\ pendingStarts = <<>>
    /\ allTasks = [j \in ImporterIds |-> IdleTask]
    /\ lastResponse = 0
    /\ nImporters = 0
    /\ nRuns = 0
    /\ crashed = NoCrash
    /\ stream = <<>>
    /\ dec = NoDecode
    /\ store \in SearchStoreSet
    /\ search \in {[NoSearch EXCEPT !.plan = plan] : plan \in {"sort", "index"}}

NextSearch ==
    \E filters \in PageFilterSet, page \in 1..MaxPage, pageSize \in 1..MaxPageSize :
        SearchIndexed(filters, page, pageSize)

SpecSearch == InitSearch /\ [][NextSearch]_vars

\* Pages of the streaming backend over two remote sources
SearchLine(f, k, st) ==
    [t |-> "rec", id |-> <<f, k>>, timestamp_utc |-> 1, city |-> <<"A", "b">>,
     state |-> st, material |-> <<"a">>, inspection_score |-> 1,
     requires_repair |-> TRUE]

\* line k of file f: a record of state "a", one of state "b", or a malformed line
SearchSourceSet(f, maxLines) ==
    UNION {{[k \in 1..n |-> IF kind[k] = "bad"
                            THEN [SearchLine(f, k, <<>>) EXCEPT !.t = "bad"]
                            ELSE SearchLine(f, k, <<kind[k]>>)] :
               kind \in [1..n -> {"a", "b", "bad"}]} :
           n \in 0..maxLines}

InitStream ==
    /\ files \in {[part1 |-> s1, part2 |-> s2] :
                     s1 \in SearchSourceSet(1, MaxSearchLines),
                     s2 \in SearchSourceSet(2, MaxSearchLines - 1)}
    /\ options = DEFAULT_OPTIONS
    /\ InitProcess
    /\ stream = <<>>
    /\ dec = NoDecode
    /\ search = NoSearch

NextStream ==
    \E filters \in PageFilterSet, page \in 1..MaxPage, pageSize \in 1..MaxPageSize :
        SearchStreaming(filters, page, pageSize)

SpecStream == InitStream /\ [][NextStream]_vars

\* Indexed searches while an import runs in the same process
ConcurrentLine(i, st) ==
    [t |-> "rec", id |-> i, missing |-> "none", timestamp_utc |-> 1,
     city |-> <<"A", "b">>, state |-> st, material |-> <<"a">>,
     inspection_score |-> 1, requires_repair |-> TRUE]

ConcurrentSourceSet ==
    UNION {[1..n -> {ConcurrentLine("a", <<"a">>), ConcurrentLine("b", <<"a">>),
                     ConcurrentLine("c", <<"b">>)}] : n \in 1..MaxLines}

InitConcurrent ==
    /\ files \in {[part1 |-> s, part2 |-> Part2Lines] : s \in ConcurrentSourceSet}
    /\ options \in {o \in OptionSet : o.validateData /\ o.skipDuplicates}
    /\ InitProcess
    /\ stream = <<>>
    /\ dec = NoDecode
    /\ search \in {[NoSearch EXCEPT !.plan = plan] : plan \in {"sort", "index"}}

NextConcurrent ==
    \/ CallImportFromS3(FileNames[1], FALSE)
    \/ \E i \in ImporterIds : RunStep(i)
    \/ \E filters \in PageFilterSet, page \in 1..MaxPage, pageSize \in 1..MaxPageSize :
          SearchIndexed(filters, page, pageSize)

SpecConcurrent == InitConcurrent /\ [][NextConcurrent]_vars

----------------------------------------------------------------------------
(* Properties *)

Started(i) == importers[i].pc # "idle"
Done(i) == importers[i].pc = "done"
LogRow(i) == import_log[importers[i].logId]
RowCounters(row) == <<row.records_processed, row.records_imported, row.errors>>

\* the identifiers one uninterrupted run of the chunk loop stores, from `offset`
RECURSIVE UninterruptedIds(_, _)
UninterruptedIds(lines, offset) ==
    LET chunk == streamFromS3(lines, chunkSize, offset)
        kept == IF options.validateData THEN SelectSeq(chunk, validateRecord) ELSE chunk
    IN IF Len(chunk) = 0 THEN {}
       ELSE SeqIds(kept) \cup (IF Len(chunk) < chunkSize THEN {}
                               ELSE UninterruptedIds(lines, offset + Len(chunk)))

\* C1: at most one import run is active at a time, and no start request passes
\* the guard of startImport while a run is active.
C1_SingleActiveRun ==
    /\ Cardinality(ActiveRuns) <= 1
    /\ \A k \in DOMAIN pendingStarts : ~pendingStarts[k].sawActive

\* C2: a run started with resume=true begins decoding at the recordsProcessed
\* of the source's most recent non-completed checkpoint, and its in-memory
\* recordsProcessed counter starts at the same value.
C2_ResumeStartsAtCheckpoint ==
    \A i \in ImporterIds :
        Started(i) /\ importers[i].obs.resume =>
            /\ importers[i].obs.startOffset = importers[i].obs.checkpoint
            /\ importers[i].obs.startCounters[1] = importers[i].obs.checkpoint

\* C3 as stated: a run started with resume=false begins at offset 0 with all
\* counters 0 and a new checkpoint row, whatever checkpoints exist.
C3_FreshStartsAtZero ==
    \A i \in ImporterIds :
        Started(i) /\ ~importers[i].obs.resume =>
            /\ importers[i].obs.startOffset = 0
            /\ importers[i].obs.startCounters = <<0, 0, 0>>
            /\ importers[i].obs.newRow

\* C3 amended: a run started with resume=false begins at offset 0 with all
\* counters 0 and a new checkpoint row when the source's most recent
\* non-completed checkpoint is absent or has recordsProcessed 0 (completed
\* checkpoints never count); otherwise it begins at that recordsProcessed.
C3_FreshUnlessResumable ==
    \A i \in ImporterIds :
        Started(i) /\ ~importers[i].obs.resume =>
            /\ importers[i].obs.startOffset = importers[i].obs.checkpoint
            /\ importers[i].obs.checkpoint = 0 =>
                  /\ importers[i].obs.startCounters = <<0, 0, 0>>
                  /\ importers[i].obs.newRow

\* a fresh run started over a completed checkpoint of the same source
C3_Witness ==
    \E i \in ImporterIds :
        /\ Started(i) /\ ~importers[i].obs.resume
        /\ importers[i].obs.afterCompleted
        /\ importers[i].obs.newRow
        /\ Len(files[importers[i].fileName]) > 0

\* C4: when a run of a source ends completed, however often the import was
\* stopped or crashed and resumed before, the Store holds exactly the
\* identifiers one uninterrupted run stores, each in one row.
C4_ResumeSameIds ==
    \A i \in ImporterIds :
        Done(i) /\ importers[i].progress.status = "completed" =>
            /\ {id \in StoredIds : id \in SeqIds(files[importers[i].fileName])}
                   = UninterruptedIds(files[importers[i].fileName], 0)
            /\ Cardinality(StoredIds) = Len(store)

\* a run that resumed at a positive offset, committed a further batch and completed
C4_Witness ==
    \E i \in ImporterIds :
        /\ Done(i) /\ importers[i].progress.status = "completed"
        /\ importers[i].obs.startOffset > 0
        /\ importers[i].obs.committed > 0

C6_UniqueIds ==
    \A j, k \in DOMAIN store : store[j].id = store[k].id => j = k

\* with dedup disabled, a batch holding an already stored identifier was written
C6_Witness ==
    \E i \in ImporterIds :
        /\ importers[i].pc = "persist"
        /\ ~options.skipDuplicates
        /\ importers[i].obs.afterCompleted
        /\ importers[i].progress.recordsImported > 0

\* C7 as stated: a run during which stop() was called ends with checkpoint
\* status paused, and canResumeImport then returns true for its source.
C7_StopPausesResumable ==
    \A i \in ImporterIds :
        Done(i) /\ importers[i].obs.stopped =>
            /\ importers[i].progress.status = "paused"
            /\ LogRow(i).status = "paused"
            /\ canResumeImport(import_log, importers[i].fileName)

\* C7 amended: a run during which stop() was called ends paused unless a
\* fatal decode error ends it first (then failed); canResumeImport then
\* returns true if the run started at a positive offset or committed a
\* batch, and false for a fresh run stopped before its first batch.
C7_StopPausesUnlessFailed ==
    \A i \in ImporterIds :
        Done(i) /\ importers[i].obs.stopped =>
            /\ importers[i].progress.status \in {"paused", "failed"}
            /\ LogRow(i).status = importers[i].progress.status
            /\ importers[i].progress.status = "paused" =>
                  (canResumeImport(import_log, importers[i].fileName)
                      <=> (importers[i].obs.startOffset > 0
                           \/ importers[i].obs.committed > 0))

\* a stopped run that ended paused after committing a batch
C7_Witness ==
    \E i \in ImporterIds :
        /\ Done(i) /\ importers[i].obs.stopped
        /\ importers[i].progress.status = "paused"
        /\ importers[i].obs.committed > 0
        /\ canResumeImport(import_log, importers[i].fileName)

\* C8: the recordsProcessed persisted in a paused checkpoint equals the run's
\* starting offset plus the sizes of the batches it committed.
C8_PausedAtBatchBoundary ==
    \A i \in ImporterIds :
        Done(i) /\ importers[i].progress.status = "paused" =>
            LogRow(i).records_processed
                = importers[i].obs.startOffset + importers[i].obs.committed

\* C9: a run that resumes a source after a crash decodes again at most
\* batchSize of the records whose batches had committed before the crash.
C9_RedoAtMostOneBatch ==
    \A i \in ImporterIds :
        Started(i) /\ importers[i].obs.resume /\ importers[i].obs.afterCrash =>
            importers[i].obs.redone <= options.batchSize

C11_OneRowFinalizedOnce ==
    /\ \A i \in ImporterIds :
          Active(i) => /\ LogRow(i).status = "running"
                       /\ ~LogRow(i).completed_at
    /\ \A i \in ImporterIds :
          Done(i) => /\ LogRow(i).status = importers[i].progress.status
                     /\ LogRow(i).status \in {"completed", "failed", "paused"}
                     /\ LogRow(i).completed_at
    /\ \A i, j \in ImporterIds :
          Started(i) /\ Started(j) /\ i # j => importers[i].logId # importers[j].logId

\* C12: the recordsProcessed a resume of the source reads, that of its most
\* recent non-completed checkpoint, never decreases in a step of the run
\* history (steps that complete an import of the source set aside).
C12_ResumeOffsetMonotone ==
    [][(\A k \in DOMAIN import_log :
            import_log'[k].status = "completed" => import_log[k].status = "completed")
        => LastCheckpoint(import_log', FileNames[1])
              >= LastCheckpoint(import_log, FileNames[1])]_vars

\* C14: importAllFiles takes the files in list order, one at a time: its
\* results are those of the first files of the list, in order; while it waits
\* for a file, that file is the next of the list and runs on the one child
\* importer; no result before the last is failed, and after a failed result
\* the loop has ended and no further file is started.
C14_AllFilesInOrder ==
    \A p \in ImporterIds :
        LET task == allTasks[p]
            n == Len(task.results)
        IN task.pc # "idle" =>
            /\ n <= Len(FileNames)
            /\ \A k \in 1..n : task.results[k].fileName = FileNames[k]
            /\ \A k \in 1..(n - 1) : task.results[k].status # "failed"
            /\ task.pc = "await" =>
                  /\ task.i = n + 1
                  /\ importers[task.child].fileName = FileNames[task.i]
                  /\ Started(task.child)
            /\ (n > 0 /\ task.results[n].status = "failed") => task.pc = "done"

\* a first file failed and the loop ended with that one result
C14_Witness ==
    \E p \in ImporterIds :
        /\ allTasks[p].pc = "done"
        /\ Len(allTasks[p].results) = 1
        /\ allTasks[p].results[1].status = "failed"
        /\ Len(FileNames) > 1

\* the number of elements of s that satisfy Test
CountIf(s, Test(_)) == Len(SelectSeq(s, Test))

IsMalformed(line) == line.t = "bad"

\* the record lacks one of the fields the import requires
MissingRequired(r) ==
    \/ r.id = ""
    \/ r.missing \in {"city", "state", "material", "inspection_score", "requires_repair"}

\* the record passes validation and can be written
IsImportable(r) ==
    /\ r.t = "rec"
    /\ ~MissingRequired(r)
    /\ r.missing \notin {"diameter_in", "timestamp_utc", "defect.code"}

\* C13: a run from offset 0 over a source with valid records that ends
\* completed has imported every valid record of the source, and its error
\* counter is at least the number of malformed lines of the source.
C13_MalformedCounted ==
    \A i \in ImporterIds :
        (/\ Done(i) /\ importers[i].progress.status = "completed"
         /\ importers[i].obs.startOffset = 0
         /\ \E k \in DOMAIN files[importers[i].fileName] :
                IsImportable(files[importers[i].fileName][k])) =>
            LET lines == files[importers[i].fileName]
            IN /\ \A k \in DOMAIN lines :
                     IsImportable(lines[k]) => lines[k].id \in StoredIds
               /\ importers[i].progress.errors >= CountIf(lines, IsMalformed)

\* the records of the batch that reach the write: valid if validation is on,
\* not yet stored if dedup is on
BatchCandidates(i) ==
    LET batch == batchOf(importers[i].chunk, options.batchSize, importers[i].bi)
        valid == IF options.validateData
                 THEN SelectSeq(batch, LAMBDA r : ~MissingRequired(r)
                                                  /\ r.missing # "diameter_in")
                 ELSE batch
    IN IF options.skipDuplicates
       THEN SelectSeq(valid, LAMBDA r : r.id \notin StoredIds)
       ELSE valid

WriteFails(r) == r.missing \in {"timestamp_utc", "defect.code"}
WriteSucceeds(r) == ~WriteFails(r)

C16_InvalidNeverStored ==
    /\ [](options.validateData =>
             \A k \in DOMAIN store : ~MissingRequired(store[k]))
    /\ [][\A i \in ImporterIds :
             (InsertBatch(i) /\ options.validateData) =>
                LET batch == batchOf(importers[i].chunk, options.batchSize, importers[i].bi)
                    imported == importers'[i].progress.recordsImported
                                   - importers[i].progress.recordsImported
                    errors == importers'[i].progress.errors - importers[i].progress.errors
                IN /\ imported + errors = Len(batch)
                   /\ imported <= Len(batch) - CountIf(batch, MissingRequired)]_vars

\* with validation on, a batch holding a record without city and a valid
\* record was written
C16_Witness ==
    \E i \in ImporterIds :
        /\ options.validateData
        /\ importers[i].pc = "persist"
        /\ LET batch == batchOf(importers[i].chunk, options.batchSize, importers[i].bi)
           IN /\ \E k \in DOMAIN batch : MissingRequired(batch[k])
              /\ \E k \in DOMAIN batch : IsImportable(batch[k])
        /\ importers[i].progress.recordsImported > 0
        /\ importers[i].progress.errors > 0

\* the source has a checkpoint whose status is running, paused or failed
HasOpenCheckpoint(log, fileName) ==
    \E k \in DOMAIN log : log[k].source_file = fileName /\ log[k].status # "completed"

C18_NoReadAfterLimit ==
    /\ [](Len(dec.results) <= dec.limit)
    /\ [][DecodeRead \/ DecodeReadFails => Len(dec.results) < dec.limit]_vars

\* a call returned `limit` records and left chunks of the body unread
C18_Witness ==
    /\ dec.pc = "done"
    /\ Len(dec.results) = dec.limit
    /\ dec.next <= Len(stream)

\* C19: the filter of the indexed backend and the filter of the streaming
\* backend accept the same inspections.
C19_SamePredicate ==
    search.op = "match" => (search.indexed <=> search.streaming)

\* the slice [from, to) of a sequence, counting from 0
Slice(s, from, to) ==
    IF from >= Len(s) THEN <<>> ELSE SubSeq(s, from + 1, Min2(to, Len(s)))

\* C20: a page of the indexed backend is the slice [(p-1)*s, p*s) of the whole
\* filtered result; the whole result holds exactly the rows the filter accepts,
\* each once, by timestamp descending; a row of the page is on no other page.
C20_PageIsSlice ==
    search.op = "indexed" =>
        LET whole == getInspections(store, search.filters, 1, Len(store) + 1, search.plan)
            p == search.page
            sz == search.pageSize
        IN /\ search.results = Slice(whole, (p - 1) * sz, p * sz)
           /\ Len(search.results) <= sz
           /\ Len(whole) = search.totalCount
           /\ \A k \in DOMAIN store :
                 whereClause(store[k], search.filters)
                     <=> \E j \in DOMAIN whole : whole[j] = store[k]
           /\ \A j, k \in DOMAIN whole :
                 j < k => whole[j].timestamp_utc >= whole[k].timestamp_utc
           /\ \A q \in 1..(Len(store) + 1) :
                 q # p =>
                    LET other == getInspections(store, search.filters, q, sz, search.plan)
                    IN \A j \in DOMAIN search.results, k \in DOMAIN other :
                          search.results[j].id # other[k].id

\* a second page, shorter than the page size, of rows that share a timestamp
C20_Witness ==
    /\ search.op = "indexed"
    /\ search.page = 2
    /\ search.pageSize = 2
    /\ Len(search.results) = 1
    /\ \A k \in DOMAIN store : store[k].timestamp_utc = 1

\* the records of a source that parse and that the streaming filter accepts
MatchesOf(lines, filters) ==
    SelectSeq(lines, LAMBDA line : line.t = "rec" /\ streamingAccepts(line, filters))

\* the matching records of all sources, in source order
RECURSIVE AllMatches(_, _)
AllMatches(k, filters) ==
    IF k > Len(FileNames) THEN <<>>
    ELSE MatchesOf(files[FileNames[k]], filters) \o AllMatches(k + 1, filters)

\* C21: a page of the streaming backend holds the matches at positions
\* [(p-1)*s, p*s) of the matching records of all sources in source order.
C21_StreamingPageIsSlice ==
    search.op = "streaming" =>
        search.results = Slice(AllMatches(1, search.filters),
                               (search.page - 1) * search.pageSize,
                               search.page * search.pageSize)

\* C22: during a streaming search the decoder is asked for, and so returns,
\* at most skip + pageSize records.
C22_AskedAtMostSkipPlusPage ==
    search.op = "streaming" =>
        /\ search.produced <= search.asked
        /\ search.produced <= (search.page - 1) * search.pageSize + search.pageSize

\* C23: the totalCount of a streaming search is at least the number of matches
\* the scan skipped or returned, and at least the length of the page.
C23_TotalCountAtLeastObserved ==
    search.op = "streaming" =>
        /\ search.totalCount >= search.observed
        /\ search.totalCount >= Len(search.results)

\* C24: an indexed search answered while an import runs reports as totalCount
\* the number of stored rows its filter accepts at that moment, at most
\* pageSize results, all of them such rows, and totalCount >= results.length.
C24_CountExactDuringImport ==
    [][search' # search =>
         LET accepted == {k \in DOMAIN store : whereClause(store[k], search'.filters)}
         IN /\ store' = store
            /\ search'.totalCount = Cardinality(accepted)
            /\ search'.totalCount >= Len(search'.results)
            /\ Len(search'.results) <= search'.pageSize
            /\ \A j \in DOMAIN search'.results :
                  \E k \in accepted : store[k] = search'.results[j]]_vars

\* a search answered between the two batches of a first run: one row is
\* stored, the run is suspended before it writes the second
C24_Witness ==
    /\ search.op = "indexed"
    /\ search.totalCount = 1
    /\ Len(search.results) = 1
    /\ Len(store) = 1
    /\ nRuns = 1
    /\ \E i \in ImporterIds : importers[i].pc = "dedup" /\ importers[i].obs.committed = 1

\* C25: the chunks a run decodes from offset 0 by successive calls of
\* streamFromS3, each skipping the records the earlier calls returned, hold
\* every well-formed record of the source once and in source order.
C25_ChunksCoverSourceOnce ==
    \A i \in ImporterIds :
        (Done(i) /\ importers[i].progress.status = "completed"
                 /\ importers[i].obs.startOffset = 0) =>
            importers[i].obs.fetched
                = SelectSeq(files[importers[i].fileName], LAMBDA line : line.t = "rec")

\* the bytes of a body, whatever the reads they arrive in
RECURSIVE Flatten(_)
Flatten(body) == IF body = <<>> THEN <<>> ELSE Head(body) \o Flatten(Tail(body))

\* a call of streamFromS3 run to its return on the body `body`
RECURSIVE runDecoder(_, _)
runDecoder(d, body) == IF d.pc # "read" THEN d ELSE runDecoder(readStep(d, body), body)

\* the lines of a body as the line-level decoder sees them
LinesOf(body) ==
    LET texts == split(Flatten(body), <<>>, <<>>)
    IN [k \in DOMAIN texts |->
           [t |-> IF texts[k] = BlankText THEN "blank"
                  ELSE IF parses(texts[k]) THEN "rec" ELSE "bad",
            id |-> k, missing |-> "none"]]

\* C26: what streamFromS3 returns for (limit, skip) is what it returns when the
\* whole body arrives in one read, and is the requested window of the lines of
\* the body: each record intact and once, a last record without a newline
\* included when it lies in the window.
C26_IndependentOfReads ==
    dec.pc = "done" =>
        LET start == [NoDecode EXCEPT !.pc = "read", !.limit = dec.limit,
                                      !.offset = dec.offset]
        IN /\ dec.results = runDecoder(start, <<Flatten(stream)>>).results
           /\ Len(dec.results)
                 = Len(streamFromS3(LinesOf(stream), dec.limit, dec.offset))
           /\ \A k \in DOMAIN dec.results : dec.results[k] = RecordText

\* a body whose last record has no newline after it and arrives in two reads,
\* returned by a call that skipped the record before it
C26_Witness ==
    /\ dec.pc = "done"
    /\ dec.offset = 1
    /\ Len(dec.results) = 1
    /\ Len(stream) >= 2
    /\ stream[Len(stream)] = <<"}">>
    /\ stream[Len(stream) - 1][Len(stream[Len(stream) - 1])] = "{"

\* C27: after stop() on the importer that executes importAllFiles, the run of
\* the source in progress ends paused (failed if its fetch fails), never
\* completed, and no later source is started.
C27_StopPausesCurrentSource ==
    \A p \in ImporterIds :
        LET task == allTasks[p]
            c == task.stoppedChild
        IN c # 0 =>
              /\ Done(c) => importers[c].progress.status \in {"paused", "failed"}
              /\ task.child \in {0, c}

\* C28: once the run of a source has finalized as completed, and until the next
\* run starts, canResumeImport(source) is false and getResumableImports lists
\* no row of that source.
C28_CompletedNotResumable ==
    \A i \in ImporterIds :
        (Done(i) /\ importers[i].progress.status = "completed") =>
            /\ ~canResumeImport(import_log, importers[i].fileName)
            /\ \A k \in getResumableImports(import_log) :
                  import_log[k].source_file # importers[i].fileName

\* C29: in the step that writes a batch, a record whose write fails leaves no
\* row behind, and with dedup on the rows the step adds are as many as the
\* records it counts in recordsImported.
C29_StoredIffCounted ==
    [][\A i \in ImporterIds :
          InsertBatch(i) =>
             LET cand == BatchCandidates(i)
                 imported == importers'[i].progress.recordsImported
                                - importers[i].progress.recordsImported
             IN /\ \A k \in DOMAIN cand :
                       WriteFails(cand[k]) =>
                           \/ cand[k].id \in SeqIds(store)
                           \/ cand[k].id \notin SeqIds(store')
                /\ options.skipDuplicates => Len(store') - Len(store) = imported]_vars

\* the records of the batch that pass validation, or all when validation is off
BatchValid(i) ==
    LET batch == batchOf(importers[i].chunk, options.batchSize, importers[i].bi)
    IN IF options.validateData
       THEN SelectSeq(batch, LAMBDA r : ~MissingRequired(r) /\ r.missing # "diameter_in")
       ELSE batch

\* C30: with dedup on, the error counter of a run grows in every batch by the
\* records validation discarded plus the records whose write failed, and by
\* nothing for the records dropped as already stored; so it ends at their sum.
C30_DuplicatesAreNotErrors ==
    [][\A i \in ImporterIds :
          (InsertBatch(i) /\ options.skipDuplicates) =>
             LET batch == batchOf(importers[i].chunk, options.batchSize, importers[i].bi)
             IN importers'[i].progress.errors - importers[i].progress.errors
                   = (Len(batch) - Len(BatchValid(i)))
                       + CountIf(BatchCandidates(i), WriteFails)]_vars

====
